---- MODULE Spec2Model ----
(***************************************************************************)
(* Quiz_Creator, src/app.py: the /generate-quiz request pipeline.          *)
(*                                                                         *)
(* One request at a time is followed through generate_quiz_endpoint and    *)
(* generate_quiz_from_text: upload validation, text extraction, the        *)
(* empty-text check, prompt construction, the single chat-completion call, *)
(* json.loads of the returned content, the top-level key check and the     *)
(* HTTP response.  Page text, the text and filenames are sequences of       *)
(* Unicode code points; the content returned by the backend is a sequence  *)
(* of JSON lexemes which JsonLoads parses; JSON strings are strings.       *)
(***************************************************************************)
EXTENDS Integers, Sequences, FiniteSets, TLC

VARIABLES
    client,     \* TRUE iff openai.OpenAI() succeeded at import (app.py:18-22)
    pc,         \* position of the request in the pipeline
    req,        \* the request: [hasPdf, filename, doc]
    bytesRead,  \* file.read() has been executed for this request (app.py:109)
    extracted,  \* fitz.open / get_text has been executed (app.py:112-113)
    text,       \* the local text of generate_quiz_endpoint
    prompt,     \* the GenerationRequest rendered by generate_quiz_from_text
    calls,      \* number of client.chat.completions.create calls of this request
    raw,        \* completion.choices[0].message.content
    status,     \* HTTP status of the response (0: none yet)
    kind,       \* which failure site produced the response ("" : none)
    body,       \* the JSON body handed to jsonify
    trace,      \* the pipeline steps this request has executed, in order
    lastFailure \* [kind, body] of the latest failed response before this request

vars == <<client, pc, req, bytesRead, extracted, text, prompt, calls, raw,
          status, kind, body, trace, lastFailure>>

----------------------------------------------------------------------------
(* Bounds of the model and program constants.                              *)

\* text[:4000], app.py:43
TruncLimit == 4000
\* num_mcq and num_tf, app.py:32-33
num_mcq == 5
num_tf == 5
\* largest number of pages of a small document
MaxPages == 2
\* long texts run from TruncLimit - Span to TruncLimit + Span characters
Span == 8

----------------------------------------------------------------------------
(* Characters (code points) and strings (sequences of code points).        *)

\* the characters str.strip() removes: those with str.isspace()
Whitespace ==
    (9..13) \cup (28..32) \cup {133, 160, 5760} \cup (8192..8202)
        \cup {8232, 8233, 8239, 8287, 12288}

\* the simple lower-case mappings of str.lower(): <<first, last, delta, step>>
\* maps first, first + step, ..., last each to itself plus delta
LowerTable ==
    { <<65, 90, 32, 1>>, <<192, 214, 32, 1>>, <<216, 222, 32, 1>>,
      <<256, 302, 1, 2>>, <<306, 310, 1, 2>>, <<313, 327, 1, 2>>,
      <<330, 374, 1, 2>>, <<376, 376, -121, 1>>, <<377, 381, 1, 2>>,
      <<385, 385, 210, 1>>, <<386, 388, 1, 2>>, <<390, 390, 206, 1>>,
      <<391, 391, 1, 1>>, <<393, 394, 205, 1>>, <<395, 395, 1, 1>>,
      <<398, 398, 79, 1>>, <<399, 399, 202, 1>>, <<400, 400, 203, 1>>,
      <<401, 401, 1, 1>>, <<403, 403, 205, 1>>, <<404, 404, 207, 1>>,
      <<406, 406, 211, 1>>, <<407, 407, 209, 1>>, <<408, 408, 1, 1>>,
      <<412, 412, 211, 1>>, <<413, 413, 213, 1>>, <<415, 415, 214, 1>>,
      <<416, 420, 1, 2>>, <<422, 422, 218, 1>>, <<423, 423, 1, 1>>,
      <<425, 425, 218, 1>>, <<428, 428, 1, 1>>, <<430, 430, 218, 1>>,
      <<431, 431, 1, 1>>, <<433, 434, 217, 1>>, <<435, 437, 1, 2>>,
      <<439, 439, 219, 1>>, <<440, 440, 1, 1>>, <<444, 444, 1, 1>>,
      <<452, 452, 2, 1>>, <<453, 453, 1, 1>>, <<455, 455, 2, 1>>,
      <<456, 456, 1, 1>>, <<458, 458, 2, 1>>, <<459, 475, 1, 2>>,
      <<478, 494, 1, 2>>, <<497, 497, 2, 1>>, <<498, 500, 1, 2>>,
      <<502, 502, -97, 1>>, <<503, 503, -56, 1>>, <<504, 542, 1, 2>>,
      <<544, 544, -130, 1>>, <<546, 562, 1, 2>>, <<570, 570, 10795, 1>>,
      <<571, 571, 1, 1>>, <<573, 573, -163, 1>>, <<574, 574, 10792, 1>>,
      <<577, 577, 1, 1>>, <<579, 579, -195, 1>>, <<580, 580, 69, 1>>,
      <<581, 581, 71, 1>>, <<582, 590, 1, 2>>, <<880, 882, 1, 2>>,
      <<886, 886, 1, 1>>, <<895, 895, 116, 1>>, <<902, 902, 38, 1>>,
      <<904, 906, 37, 1>>, <<908, 908, 64, 1>>, <<910, 911, 63, 1>>,
      <<913, 929, 32, 1>>, <<931, 939, 32, 1>>, <<975, 975, 8, 1>>,
      <<984, 1006, 1, 2>>, <<1012, 1012, -60, 1>>, <<1015, 1015, 1, 1>>,
      <<1017, 1017, -7, 1>>, <<1018, 1018, 1, 1>>, <<1021, 1023, -130, 1>>,
      <<1024, 1039, 80, 1>>, <<1040, 1071, 32, 1>>, <<1120, 1152, 1, 2>>,
      <<1162, 1214, 1, 2>>, <<1216, 1216, 15, 1>>, <<1217, 1229, 1, 2>>,
      <<1232, 1326, 1, 2>>, <<1329, 1366, 48, 1>>, <<4256, 4293, 7264, 1>>,
      <<4295, 4295, 7264, 1>>, <<4301, 4301, 7264, 1>>,
      <<5024, 5103, 38864, 1>>, <<5104, 5109, 8, 1>>,
      <<7312, 7354, -3008, 1>>, <<7357, 7359, -3008, 1>>,
      <<7680, 7828, 1, 2>>, <<7838, 7838, -7615, 1>>, <<7840, 7934, 1, 2>>,
      <<7944, 7951, -8, 1>>, <<7960, 7965, -8, 1>>, <<7976, 7983, -8, 1>>,
      <<7992, 7999, -8, 1>>, <<8008, 8013, -8, 1>>, <<8025, 8031, -8, 2>>,
      <<8040, 8047, -8, 1>>, <<8072, 8079, -8, 1>>, <<8088, 8095, -8, 1>>,
      <<8104, 8111, -8, 1>>, <<8120, 8121, -8, 1>>, <<8122, 8123, -74, 1>>,
      <<8124, 8124, -9, 1>>, <<8136, 8139, -86, 1>>, <<8140, 8140, -9, 1>>,
      <<8152, 8153, -8, 1>>, <<8154, 8155, -100, 1>>,
      <<8168, 8169, -8, 1>>, <<8170, 8171, -112, 1>>,
      <<8172, 8172, -7, 1>>, <<8184, 8185, -128, 1>>,
      <<8186, 8187, -126, 1>>, <<8188, 8188, -9, 1>>,
      <<8486, 8486, -7517, 1>>, <<8490, 8490, -8383, 1>>,
      <<8491, 8491, -8262, 1>>, <<8498, 8498, 28, 1>>,
      <<8544, 8559, 16, 1>>, <<8579, 8579, 1, 1>>, <<9398, 9423, 26, 1>>,
      <<11264, 11311, 48, 1>>, <<11360, 11360, 1, 1>>,
      <<11362, 11362, -10743, 1>>, <<11363, 11363, -3814, 1>>,
      <<11364, 11364, -10727, 1>>, <<11367, 11371, 1, 2>>,
      <<11373, 11373, -10780, 1>>, <<11374, 11374, -10749, 1>>,
      <<11375, 11375, -10783, 1>>, <<11376, 11376, -10782, 1>>,
      <<11378, 11378, 1, 1>>, <<11381, 11381, 1, 1>>,
      <<11390, 11391, -10815, 1>>, <<11392, 11490, 1, 2>>,
      <<11499, 11501, 1, 2>>, <<11506, 11506, 1, 1>>,
      <<42560, 42604, 1, 2>>, <<42624, 42650, 1, 2>>,
      <<42786, 42798, 1, 2>>, <<42802, 42862, 1, 2>>,
      <<42873, 42875, 1, 2>>, <<42877, 42877, -35332, 1>>,
      <<42878, 42886, 1, 2>>, <<42891, 42891, 1, 1>>,
      <<42893, 42893, -42280, 1>>, <<42896, 42898, 1, 2>>,
      <<42902, 42920, 1, 2>>, <<42922, 42922, -42308, 1>>,
      <<42923, 42923, -42319, 1>>, <<42924, 42924, -42315, 1>>,
      <<42925, 42925, -42305, 1>>, <<42926, 42926, -42308, 1>>,
      <<42928, 42928, -42258, 1>>, <<42929, 42929, -42282, 1>>,
      <<42930, 42930, -42261, 1>>, <<42931, 42931, 928, 1>>,
      <<42932, 42946, 1, 2>>, <<42948, 42948, -48, 1>>,
      <<42949, 42949, -42307, 1>>, <<42950, 42950, -35384, 1>>,
      <<42951, 42953, 1, 2>>, <<42960, 42960, 1, 1>>,
      <<42966, 42968, 1, 2>>, <<42997, 42997, 1, 1>>,
      <<65313, 65338, 32, 1>>, <<66560, 66599, 40, 1>>,
      <<66736, 66771, 40, 1>>, <<66928, 66938, 39, 1>>,
      <<66940, 66954, 39, 1>>, <<66956, 66962, 39, 1>>,
      <<66964, 66965, 39, 1>>, <<68736, 68786, 64, 1>>,
      <<71840, 71871, 32, 1>>, <<93760, 93791, 32, 1>>,
      <<125184, 125217, 34, 1>> }

\* the lower case of one character by itself; U+0130 alone lowers to two
\* characters
LowerChar(c) ==
    IF c = 304 THEN <<105, 775>>
    ELSE IF \E r \in LowerTable :
                c >= r[1] /\ c <= r[2] /\ (c - r[1]) % r[4] = 0
         THEN LET r == CHOOSE q \in LowerTable :
                           c >= q[1] /\ c <= q[2] /\ (c - q[1]) % q[4] = 0
              IN <<c + r[3]>>
    ELSE <<c>>

\* the cased characters that are not case-ignorable, as runs <<first, last>>
CasedRuns ==
    { <<65, 90>>, <<97, 122>>, <<170, 170>>, <<181, 181>>, <<186, 186>>,
      <<192, 214>>, <<216, 246>>, <<248, 442>>, <<444, 447>>, <<452, 659>>,
      <<661, 687>>, <<880, 883>>, <<886, 887>>, <<891, 893>>, <<895, 895>>,
      <<902, 902>>, <<904, 906>>, <<908, 908>>, <<910, 929>>, <<931, 1013>>,
      <<1015, 1153>>, <<1162, 1327>>, <<1329, 1366>>, <<1376, 1416>>,
      <<4256, 4293>>, <<4295, 4295>>, <<4301, 4301>>, <<4304, 4346>>,
      <<4349, 4351>>, <<5024, 5109>>, <<5112, 5117>>, <<7296, 7304>>,
      <<7312, 7354>>, <<7357, 7359>>, <<7424, 7467>>, <<7531, 7543>>,
      <<7545, 7578>>, <<7680, 7957>>, <<7960, 7965>>, <<7968, 8005>>,
      <<8008, 8013>>, <<8016, 8023>>, <<8025, 8025>>, <<8027, 8027>>,
      <<8029, 8029>>, <<8031, 8061>>, <<8064, 8116>>, <<8118, 8124>>,
      <<8126, 8126>>, <<8130, 8132>>, <<8134, 8140>>, <<8144, 8147>>,
      <<8150, 8155>>, <<8160, 8172>>, <<8178, 8180>>, <<8182, 8188>>,
      <<8450, 8450>>, <<8455, 8455>>, <<8458, 8467>>, <<8469, 8469>>,
      <<8473, 8477>>, <<8484, 8484>>, <<8486, 8486>>, <<8488, 8488>>,
      <<8490, 8493>>, <<8495, 8500>>, <<8505, 8505>>, <<8508, 8511>>,
      <<8517, 8521>>, <<8526, 8526>>, <<8544, 8575>>, <<8579, 8580>>,
      <<9398, 9449>>, <<11264, 11387>>, <<11390, 11492>>, <<11499, 11502>>,
      <<11506, 11507>>, <<11520, 11557>>, <<11559, 11559>>, <<11565, 11565>>,
      <<42560, 42605>>, <<42624, 42651>>, <<42786, 42863>>, <<42865, 42887>>,
      <<42891, 42894>>, <<42896, 42954>>, <<42960, 42961>>, <<42963, 42963>>,
      <<42965, 42969>>, <<42997, 42998>>, <<43002, 43002>>, <<43824, 43866>>,
      <<43872, 43880>>, <<43888, 43967>>, <<64256, 64262>>, <<64275, 64279>>,
      <<65313, 65338>>, <<65345, 65370>>, <<66560, 66639>>, <<66736, 66771>>,
      <<66776, 66811>>, <<66928, 66938>>, <<66940, 66954>>, <<66956, 66962>>,
      <<66964, 66965>>, <<66967, 66977>>, <<66979, 66993>>, <<66995, 67001>>,
      <<67003, 67004>>, <<68736, 68786>>, <<68800, 68850>>, <<71840, 71903>>,
      <<93760, 93823>>, <<119808, 119892>>, <<119894, 119964>>,
      <<119966, 119967>>, <<119970, 119970>>, <<119973, 119974>>,
      <<119977, 119980>>, <<119982, 119993>>, <<119995, 119995>>,
      <<119997, 120003>>, <<120005, 120069>>, <<120071, 120074>>,
      <<120077, 120084>>, <<120086, 120092>>, <<120094, 120121>>,
      <<120123, 120126>>, <<120128, 120132>>, <<120134, 120134>>,
      <<120138, 120144>>, <<120146, 120485>>, <<120488, 120512>>,
      <<120514, 120538>>, <<120540, 120570>>, <<120572, 120596>>,
      <<120598, 120628>>, <<120630, 120654>>, <<120656, 120686>>,
      <<120688, 120712>>, <<120714, 120744>>, <<120746, 120770>>,
      <<120772, 120779>>, <<122624, 122633>>, <<122635, 122654>>,
      <<125184, 125251>>, <<127280, 127305>>, <<127312, 127337>>,
      <<127344, 127369>> }

\* the case-ignorable characters, as runs <<first, last>>
CaseIgnorableRuns ==
    { <<39, 39>>, <<46, 46>>, <<58, 58>>, <<94, 94>>, <<96, 96>>,
      <<168, 168>>, <<173, 173>>, <<175, 175>>, <<180, 180>>, <<183, 184>>,
      <<688, 879>>, <<884, 885>>, <<890, 890>>, <<900, 901>>, <<903, 903>>,
      <<1155, 1161>>, <<1369, 1369>>, <<1375, 1375>>, <<1425, 1469>>,
      <<1471, 1471>>, <<1473, 1474>>, <<1476, 1477>>, <<1479, 1479>>,
      <<1524, 1524>>, <<1536, 1541>>, <<1552, 1562>>, <<1564, 1564>>,
      <<1600, 1600>>, <<1611, 1631>>, <<1648, 1648>>, <<1750, 1757>>,
      <<1759, 1768>>, <<1770, 1773>>, <<1807, 1807>>, <<1809, 1809>>,
      <<1840, 1866>>, <<1958, 1968>>, <<2027, 2037>>, <<2042, 2042>>,
      <<2045, 2045>>, <<2070, 2093>>, <<2137, 2139>>, <<2184, 2184>>,
      <<2192, 2193>>, <<2200, 2207>>, <<2249, 2306>>, <<2362, 2362>>,
      <<2364, 2364>>, <<2369, 2376>>, <<2381, 2381>>, <<2385, 2391>>,
      <<2402, 2403>>, <<2417, 2417>>, <<2433, 2433>>, <<2492, 2492>>,
      <<2497, 2500>>, <<2509, 2509>>, <<2530, 2531>>, <<2558, 2558>>,
      <<2561, 2562>>, <<2620, 2620>>, <<2625, 2626>>, <<2631, 2632>>,
      <<2635, 2637>>, <<2641, 2641>>, <<2672, 2673>>, <<2677, 2677>>,
      <<2689, 2690>>, <<2748, 2748>>, <<2753, 2757>>, <<2759, 2760>>,
      <<2765, 2765>>, <<2786, 2787>>, <<2810, 2815>>, <<2817, 2817>>,
      <<2876, 2876>>, <<2879, 2879>>, <<2881, 2884>>, <<2893, 2893>>,
      <<2901, 2902>>, <<2914, 2915>>, <<2946, 2946>>, <<3008, 3008>>,
      <<3021, 3021>>, <<3072, 3072>>, <<3076, 3076>>, <<3132, 3132>>,
      <<3134, 3136>>, <<3142, 3144>>, <<3146, 3149>>, <<3157, 3158>>,
      <<3170, 3171>>, <<3201, 3201>>, <<3260, 3260>>, <<3263, 3263>>,
      <<3270, 3270>>, <<3276, 3277>>, <<3298, 3299>>, <<3328, 3329>>,
      <<3387, 3388>>, <<3393, 3396>>, <<3405, 3405>>, <<3426, 3427>>,
      <<3457, 3457>>, <<3530, 3530>>, <<3538, 3540>>, <<3542, 3542>>,
      <<3633, 3633>>, <<3636, 3642>>, <<3654, 3662>>, <<3761, 3761>>,
      <<3764, 3772>>, <<3782, 3782>>, <<3784, 3789>>, <<3864, 3865>>,
      <<3893, 3893>>, <<3895, 3895>>, <<3897, 3897>>, <<3953, 3966>>,
      <<3968, 3972>>, <<3974, 3975>>, <<3981, 3991>>, <<3993, 4028>>,
      <<4038, 4038>>, <<4141, 4144>>, <<4146, 4151>>, <<4153, 4154>>,
      <<4157, 4158>>, <<4184, 4185>>, <<4190, 4192>>, <<4209, 4212>>,
      <<4226, 4226>>, <<4229, 4230>>, <<4237, 4237>>, <<4253, 4253>>,
      <<4348, 4348>>, <<4957, 4959>>, <<5906, 5908>>, <<5938, 5939>>,
      <<5970, 5971>>, <<6002, 6003>>, <<6068, 6069>>, <<6071, 6077>>,
      <<6086, 6086>>, <<6089, 6099>>, <<6103, 6103>>, <<6109, 6109>>,
      <<6155, 6159>>, <<6211, 6211>>, <<6277, 6278>>, <<6313, 6313>>,
      <<6432, 6434>>, <<6439, 6440>>, <<6450, 6450>>, <<6457, 6459>>,
      <<6679, 6680>>, <<6683, 6683>>, <<6742, 6742>>, <<6744, 6750>>,
      <<6752, 6752>>, <<6754, 6754>>, <<6757, 6764>>, <<6771, 6780>>,
      <<6783, 6783>>, <<6823, 6823>>, <<6832, 6862>>, <<6912, 6915>>,
      <<6964, 6964>>, <<6966, 6970>>, <<6972, 6972>>, <<6978, 6978>>,
      <<7019, 7027>>, <<7040, 7041>>, <<7074, 7077>>, <<7080, 7081>>,
      <<7083, 7085>>, <<7142, 7142>>, <<7144, 7145>>, <<7149, 7149>>,
      <<7151, 7153>>, <<7212, 7219>>, <<7222, 7223>>, <<7288, 7293>>,
      <<7376, 7378>>, <<7380, 7392>>, <<7394, 7400>>, <<7405, 7405>>,
      <<7412, 7412>>, <<7416, 7417>>, <<7468, 7530>>, <<7544, 7544>>,
      <<7579, 7679>>, <<8125, 8125>>, <<8127, 8129>>, <<8141, 8143>>,
      <<8157, 8159>>, <<8173, 8175>>, <<8189, 8190>>, <<8203, 8207>>,
      <<8216, 8217>>, <<8228, 8228>>, <<8231, 8231>>, <<8234, 8238>>,
      <<8288, 8292>>, <<8294, 8303>>, <<8305, 8305>>, <<8319, 8319>>,
      <<8336, 8348>>, <<8400, 8432>>, <<11388, 11389>>, <<11503, 11505>>,
      <<11631, 11631>>, <<11647, 11647>>, <<11744, 11775>>, <<11823, 11823>>,
      <<12293, 12293>>, <<12330, 12333>>, <<12337, 12341>>, <<12347, 12347>>,
      <<12441, 12446>>, <<12540, 12542>>, <<40981, 40981>>, <<42232, 42237>>,
      <<42508, 42508>>, <<42607, 42610>>, <<42612, 42621>>, <<42623, 42623>>,
      <<42652, 42655>>, <<42736, 42737>>, <<42752, 42785>>, <<42864, 42864>>,
      <<42888, 42890>>, <<42994, 42996>>, <<43000, 43001>>, <<43010, 43010>>,
      <<43014, 43014>>, <<43019, 43019>>, <<43045, 43046>>, <<43052, 43052>>,
      <<43204, 43205>>, <<43232, 43249>>, <<43263, 43263>>, <<43302, 43309>>,
      <<43335, 43345>>, <<43392, 43394>>, <<43443, 43443>>, <<43446, 43449>>,
      <<43452, 43453>>, <<43471, 43471>>, <<43493, 43494>>, <<43561, 43566>>,
      <<43569, 43570>>, <<43573, 43574>>, <<43587, 43587>>, <<43596, 43596>>,
      <<43632, 43632>>, <<43644, 43644>>, <<43696, 43696>>, <<43698, 43700>>,
      <<43703, 43704>>, <<43710, 43711>>, <<43713, 43713>>, <<43741, 43741>>,
      <<43756, 43757>>, <<43763, 43764>>, <<43766, 43766>>, <<43867, 43871>>,
      <<43881, 43883>>, <<44005, 44005>>, <<44008, 44008>>, <<44013, 44013>>,
      <<64286, 64286>>, <<64434, 64450>>, <<65024, 65039>>, <<65043, 65043>>,
      <<65056, 65071>>, <<65106, 65106>>, <<65109, 65109>>, <<65279, 65279>>,
      <<65287, 65287>>, <<65294, 65294>>, <<65306, 65306>>, <<65342, 65342>>,
      <<65344, 65344>>, <<65392, 65392>>, <<65438, 65439>>, <<65507, 65507>>,
      <<65529, 65531>>, <<66045, 66045>>, <<66272, 66272>>, <<66422, 66426>>,
      <<67456, 67461>>, <<67463, 67504>>, <<67506, 67514>>, <<68097, 68099>>,
      <<68101, 68102>>, <<68108, 68111>>, <<68152, 68154>>, <<68159, 68159>>,
      <<68325, 68326>>, <<68900, 68903>>, <<69291, 69292>>, <<69446, 69456>>,
      <<69506, 69509>>, <<69633, 69633>>, <<69688, 69702>>, <<69744, 69744>>,
      <<69747, 69748>>, <<69759, 69761>>, <<69811, 69814>>, <<69817, 69818>>,
      <<69821, 69821>>, <<69826, 69826>>, <<69837, 69837>>, <<69888, 69890>>,
      <<69927, 69931>>, <<69933, 69940>>, <<70003, 70003>>, <<70016, 70017>>,
      <<70070, 70078>>, <<70089, 70092>>, <<70095, 70095>>, <<70191, 70193>>,
      <<70196, 70196>>, <<70198, 70199>>, <<70206, 70206>>, <<70367, 70367>>,
      <<70371, 70378>>, <<70400, 70401>>, <<70459, 70460>>, <<70464, 70464>>,
      <<70502, 70508>>, <<70512, 70516>>, <<70712, 70719>>, <<70722, 70724>>,
      <<70726, 70726>>, <<70750, 70750>>, <<70835, 70840>>, <<70842, 70842>>,
      <<70847, 70848>>, <<70850, 70851>>, <<71090, 71093>>, <<71100, 71101>>,
      <<71103, 71104>>, <<71132, 71133>>, <<71219, 71226>>, <<71229, 71229>>,
      <<71231, 71232>>, <<71339, 71339>>, <<71341, 71341>>, <<71344, 71349>>,
      <<71351, 71351>>, <<71453, 71455>>, <<71458, 71461>>, <<71463, 71467>>,
      <<71727, 71735>>, <<71737, 71738>>, <<71995, 71996>>, <<71998, 71998>>,
      <<72003, 72003>>, <<72148, 72151>>, <<72154, 72155>>, <<72160, 72160>>,
      <<72193, 72202>>, <<72243, 72248>>, <<72251, 72254>>, <<72263, 72263>>,
      <<72273, 72278>>, <<72281, 72283>>, <<72330, 72342>>, <<72344, 72345>>,
      <<72752, 72758>>, <<72760, 72765>>, <<72767, 72767>>, <<72850, 72871>>,
      <<72874, 72880>>, <<72882, 72883>>, <<72885, 72886>>, <<73009, 73014>>,
      <<73018, 73018>>, <<73020, 73021>>, <<73023, 73029>>, <<73031, 73031>>,
      <<73104, 73105>>, <<73109, 73109>>, <<73111, 73111>>, <<73459, 73460>>,
      <<78896, 78904>>, <<92912, 92916>>, <<92976, 92982>>, <<92992, 92995>>,
      <<94031, 94031>>, <<94095, 94111>>, <<94176, 94177>>, <<94179, 94180>>,
      <<110576, 110579>>, <<110581, 110587>>, <<110589, 110590>>,
      <<113821, 113822>>, <<113824, 113827>>, <<118528, 118573>>,
      <<118576, 118598>>, <<119143, 119145>>, <<119155, 119170>>,
      <<119173, 119179>>, <<119210, 119213>>, <<119362, 119364>>,
      <<121344, 121398>>, <<121403, 121452>>, <<121461, 121461>>,
      <<121476, 121476>>, <<121499, 121503>>, <<121505, 121519>>,
      <<122880, 122886>>, <<122888, 122904>>, <<122907, 122913>>,
      <<122915, 122916>>, <<122918, 122922>>, <<123184, 123197>>,
      <<123566, 123566>>, <<123628, 123631>>, <<125136, 125142>>,
      <<125252, 125259>>, <<127995, 127999>>, <<917505, 917505>>,
      <<917536, 917631>>, <<917760, 917999>> }

InRuns(c, runs) == \E r \in runs : c >= r[1] /\ c <= r[2]

\* from position j in direction step, the first position whose character is
\* not case-ignorable; 0 or Len(s) + 1 when there is none
RECURSIVE SkipIgnorable(_, _, _)
SkipIgnorable(s, j, step) ==
    IF j >= 1 /\ j <= Len(s) /\ InRuns(s[j], CaseIgnorableRuns)
    THEN SkipIgnorable(s, j + step, step)
    ELSE j

\* the capital sigma at position i follows a cased character and is not
\* followed by one, case-ignorable characters aside
FinalSigma(s, i) ==
    LET b == SkipIgnorable(s, i - 1, -1)
        a == SkipIgnorable(s, i + 1, 1)
    IN /\ b >= 1
       /\ InRuns(s[b], CasedRuns)
       /\ (a > Len(s) \/ ~InRuns(s[a], CasedRuns))

\* the lower case of the character at position i of s: a capital sigma
\* (U+03A3) lowers to the final sigma (U+03C2) or to the small sigma (U+03C3)
LowerAt(s, i) ==
    IF s[i] = 931
    THEN <<IF FinalSigma(s, i) THEN 962 ELSE 963>>
    ELSE LowerChar(s[i])

RECURSIVE LowerFrom(_, _)
LowerFrom(s, i) ==
    IF i > Len(s) THEN <<>> ELSE LowerAt(s, i) \o LowerFrom(s, i + 1)

\* str.lower()
Lower(s) == LowerFrom(s, 1)

\* str.endswith(suffix)
EndsWith(s, suffix) ==
    /\ Len(s) >= Len(suffix)
    /\ SubSeq(s, Len(s) - Len(suffix) + 1, Len(s)) = suffix

\* ".pdf"
DotPdf == <<46, 112, 100, 102>>

RECURSIVE LStrip(_)
LStrip(s) ==
    IF s # <<>> /\ Head(s) \in Whitespace THEN LStrip(Tail(s)) ELSE s

RECURSIVE RStrip(_)
RStrip(s) ==
    IF s # <<>> /\ s[Len(s)] \in Whitespace
    THEN RStrip(SubSeq(s, 1, Len(s) - 1))
    ELSE s

\* str.strip()
Strip(s) == RStrip(LStrip(s))

\* "".join(page.get_text() for page in doc)
RECURSIVE Join(_)
Join(pages) ==
    IF pages = <<>> THEN <<>> ELSE Head(pages) \o Join(Tail(pages))

Min(a, b) == IF a <= b THEN a ELSE b

\* Truncate with the slice one character too long
TruncateOffByOne(t) == SubSeq(t, 1, Min(Len(t), TruncLimit + 1))

\* text[:4000]
Truncate(t) == SubSeq(t, 1, Min(Len(t), TruncLimit))

\* the f-string prompt of generate_quiz_from_text: the fixed instruction text,
\* the two counts and the excerpt
BuildPrompt(t) ==
    [type |-> "prompt", mcq |-> num_mcq, tf |-> num_tf, excerpt |-> Truncate(t)]

NoPrompt == [type |-> "none"]

----------------------------------------------------------------------------
(* JSON: tokens, values, json.loads.                                       *)

Tok(t, v) == [t |-> t, v |-> v]
\* a string token: the code points of the str it denotes
TokStr(s) == [t |-> "s", s |-> s]
LBrace == Tok("p", "{")
RBrace == Tok("p", "}")
LBrack == Tok("p", "[")
RBrack == Tok("p", "]")
Colon == Tok("p", ":")
Comma == Tok("p", ",")
Newline == Tok("ws", "\n")
\* the three backticks followed by json, and the three closing backticks
FenceOpen == Tok("f", "fence-json")
FenceClose == Tok("f", "fence")

\* a str: the sequence of its code points
JStr(s) == [type |-> "str", s |-> s]
\* an int, and a float, each with its lexeme
JNum(n) == [type |-> "num", n |-> n]
JFloat(x) == [type |-> "float", x |-> x]
JLit(l) == [type |-> "lit", l |-> l]
JArr(items) == [type |-> "arr", items |-> items]
JObj(keys, vals) == [type |-> "obj", keys |-> keys, vals |-> vals]
NoVal == [type |-> "none"]

\* the results of the scanner: a value and the next position, a
\* json.JSONDecodeError, or another exception with its text
POk(v, n) == [ok |-> TRUE, val |-> v, next |-> n, exc |-> "", msg |-> <<>>]
PFail ==
    [ok |-> FALSE, val |-> NoVal, next |-> 0, exc |-> "JSONDecodeError",
     msg |-> <<>>]
PRaise(e, m) == [ok |-> FALSE, val |-> NoVal, next |-> 0, exc |-> e, msg |-> m]

\* the whitespace the JSON decoder skips
JsonWs == {" ", "\t", "\n", "\r"}

\* the words the decoder reads as float constants
FloatWords == {"NaN", "Infinity", "-Infinity"}

\* sys.get_int_max_str_digits(): int() refuses a longer digit string
IntMaxStrDigits == 4300

\* sys.getrecursionlimit()
RecursionLimit == 1000

\* the frames in use when the view is called
ServerFrames == 1

\* the frames in use inside JSONDecoder.raw_decode: on top of those of the
\* server, the view, generate_quiz_from_text, json.loads, decode and
\* raw_decode
FramesInUse == ServerFrames + 5

\* the number of digits of an int lexeme, its sign aside
IntDigits(lex) ==
    IF Len(lex) > 0 /\ SubSeq(lex, 1, 1) = "-" THEN Len(lex) - 1 ELSE Len(lex)

\* int(lexeme) of a lexeme of more than IntMaxStrDigits digits
IntTooLong(n) ==
    PRaise("ValueError",
           <<"Exceeds the limit (", ToString(IntMaxStrDigits),
             " digits) for integer string conversion: value has ",
             ToString(n),
             " digits; use sys.set_int_max_str_digits() to increase the limit">>)

MsgRecursion == "maximum recursion depth exceeded"

\* entering an array or an object at nesting depth d exhausts the recursion
\* limit
EnterRaises(d) == FramesInUse + d >= RecursionLimit

\* the call of parse_constant for NaN, Infinity or -Infinity inside d open
\* containers needs one more level of the recursion limit
CallRaises(d) == FramesInUse + d + 1 >= RecursionLimit

\* a delimiter or property-name error raised inside a container at nesting
\* depth d: the JSONDecodeError is built by calls which need three more
\* levels of the recursion limit
ErrMsgAt(d) ==
    IF FramesInUse + d = RecursionLimit - 2
    THEN PRaise("RecursionError", <<MsgRecursion>>)
    ELSE IF FramesInUse + d >= RecursionLimit - 3
         THEN PRaise("RecursionError",
                     <<MsgRecursion, " while calling a Python object">>)
    ELSE PFail

RECURSIVE SkipWs(_, _)
SkipWs(toks, i) ==
    IF i <= Len(toks) /\ toks[i].t = "ws" /\ toks[i].v \in JsonWs
    THEN SkipWs(toks, i + 1)
    ELSE i

IndexOf(keys, k) == CHOOSE i \in 1..Len(keys) : keys[i] = k

\* dict insertion: a repeated key keeps its place and takes the later value
PutKeys(keys, k) ==
    IF \E i \in 1..Len(keys) : keys[i] = k THEN keys ELSE Append(keys, k)
PutVals(keys, vals, k, v) ==
    IF \E i \in 1..Len(keys) : keys[i] = k
    THEN [vals EXCEPT ![IndexOf(keys, k)] = v]
    ELSE Append(vals, v)

RECURSIVE ParseValue(_, _, _)
RECURSIVE ParseElements(_, _, _, _)
RECURSIVE ParseMembers(_, _, _, _, _)

\* the value at position i, inside d open containers
ParseValue(toks, i, d) ==
    LET j == SkipWs(toks, i) IN
    IF j > Len(toks) THEN PFail
    ELSE LET tk == toks[j] IN
         CASE tk.t = "s" -> POk(JStr(tk.s), j + 1)
           [] tk.t = "n" ->
                IF IntDigits(tk.v) > IntMaxStrDigits
                THEN IntTooLong(IntDigits(tk.v))
                ELSE POk(JNum(tk.v), j + 1)
           [] tk.t = "d" -> POk(JFloat(tk.v), j + 1)
           [] tk.t = "w" /\ tk.v \in FloatWords ->
                IF CallRaises(d)
                THEN PRaise("RecursionError",
                            <<MsgRecursion, " while calling a Python object">>)
                ELSE POk(JFloat(tk.v), j + 1)
           [] tk.t = "w" /\ tk.v \in {"null", "true", "false"} ->
                POk(JLit(tk.v), j + 1)
           [] tk = LBrack ->
                IF EnterRaises(d + 1)
                THEN PRaise("RecursionError",
                            <<MsgRecursion,
                              " while decoding a JSON array from a unicode string">>)
                ELSE ParseElements(toks, j + 1, <<>>, d + 1)
           [] tk = LBrace ->
                IF EnterRaises(d + 1)
                THEN PRaise("RecursionError",
                            <<MsgRecursion,
                              " while decoding a JSON object from a unicode string">>)
                ELSE ParseMembers(toks, j + 1, <<>>, <<>>, d + 1)
           [] OTHER -> PFail

\* the array at depth d, after "[" (acc empty) or after a "," (acc not empty)
ParseElements(toks, i, acc, d) ==
    LET j == SkipWs(toks, i) IN
    IF j > Len(toks) THEN PFail
    ELSE IF acc = <<>> /\ toks[j] = RBrack THEN POk(JArr(acc), j + 1)
    ELSE LET r == ParseValue(toks, j, d) IN
         IF ~r.ok THEN r
         ELSE LET k == SkipWs(toks, r.next) IN
              IF k > Len(toks) THEN ErrMsgAt(d)
              ELSE IF toks[k] = RBrack
                   THEN POk(JArr(Append(acc, r.val)), k + 1)
              ELSE IF toks[k] = Comma
                   THEN ParseElements(toks, k + 1, Append(acc, r.val), d)
              ELSE ErrMsgAt(d)

\* the object at depth d, after "{" (keys empty) or after a "," (keys not
\* empty)
ParseMembers(toks, i, keys, vals, d) ==
    LET j == SkipWs(toks, i) IN
    IF j > Len(toks) THEN ErrMsgAt(d)
    ELSE IF keys = <<>> /\ toks[j] = RBrace THEN POk(JObj(keys, vals), j + 1)
    ELSE IF toks[j].t # "s" THEN ErrMsgAt(d)
    ELSE LET c == SkipWs(toks, j + 1) IN
         IF c > Len(toks) \/ toks[c] # Colon THEN ErrMsgAt(d)
         ELSE LET r == ParseValue(toks, c + 1, d) IN
              IF ~r.ok THEN r
              ELSE LET k == SkipWs(toks, r.next)
                       ks == PutKeys(keys, toks[j].s)
                       vs == PutVals(keys, vals, toks[j].s, r.val)
                   IN IF k > Len(toks) THEN ErrMsgAt(d)
                      ELSE IF toks[k] = RBrace THEN POk(JObj(ks, vs), k + 1)
                      ELSE IF toks[k] = Comma
                           THEN ParseMembers(toks, k + 1, ks, vs, d)
                      ELSE ErrMsgAt(d)

\* a fenced block tagged json: opening marker first, closing marker last
IsFenced(toks) ==
    /\ Len(toks) >= 2
    /\ toks[1] = FenceOpen
    /\ toks[Len(toks)] = FenceClose

\* the content between the two markers
Unfence(toks) == SubSeq(toks, 2, Len(toks) - 1)

\* the whole text is the candidate handed to the parser (app.py:81)
Candidate(toks) == toks

\* json.loads(response_content): a value, json.JSONDecodeError, or another
\* exception, which app.py:86 does not catch
JsonLoads(toks) ==
    LET c == Candidate(toks)
        r == ParseValue(c, 1, 0)
    IN IF ~r.ok THEN [ok |-> FALSE, val |-> NoVal, exc |-> r.exc, msg |-> r.msg]
       ELSE IF SkipWs(c, r.next) > Len(c)
            THEN [ok |-> TRUE, val |-> r.val, exc |-> "", msg |-> <<>>]
       ELSE [ok |-> FALSE, val |-> NoVal, exc |-> "JSONDecodeError",
             msg |-> <<>>]

----------------------------------------------------------------------------
(* Membership tests of the key check of the endpoint (app.py:122).         *)

\* the code points of "multiple_choice" and of "true_false"
KeyMc == <<109, 117, 108, 116, 105, 112, 108, 101, 95, 99, 104, 111, 105, 99,
           101>>
KeyTf == <<116, 114, 117, 101, 95, 102, 97, 108, 115, 101>>
\* the code points of "question", "options", "answer" and "quiz"
KeyQuestion == <<113, 117, 101, 115, 116, 105, 111, 110>>
KeyOptions == <<111, 112, 116, 105, 111, 110, 115>>
KeyAnswer == <<97, 110, 115, 119, 101, 114>>
KeyQuiz == <<113, 117, 105, 122>>
\* the str "Q", "a", "b", "c", "d", "x", "z", "True" and "true"
StrQ == <<81>>
StrA == <<97>>
StrB == <<98>>
StrC == <<99>>
StrD == <<100>>
StrX == <<120>>
StrZ == <<122>>
StrTrue == <<84, 114, 117, 101>>
StrLowerTrue == <<116, 114, 117, 101>>
\* keys beyond ASCII: e with acute, u with diaeresis, the CJK character
\* U+65E5, DEL, U+0001 and the space
StrEAcute == <<233>>
StrUDiaeresis == <<252>>
StrCjk == <<26085>>
StrDel == <<127>>
StrSoh == <<1>>
StrSpace == <<32>>

\* needle in hay, for two str
StrContains(needle, hay) ==
    \E i \in 1..(Len(hay) - Len(needle) + 1) :
        SubSeq(hay, i, i + Len(needle) - 1) = needle

\* (needle in v) raises TypeError for an int, a float, a bool or None
InRaises(v) == v.type \in {"num", "float", "lit"}

\* (needle in v): a key of a dict, an element of a list, a substring of a str
PyIn(needle, v) ==
    CASE v.type = "obj" -> \E i \in 1..Len(v.keys) : v.keys[i] = needle
      [] v.type = "arr" -> \E i \in 1..Len(v.items) : v.items[i] = JStr(needle)
      [] v.type = "str" -> StrContains(needle, v.s)
      [] OTHER -> FALSE

\* "multiple_choice" not in quiz_data or "true_false" not in quiz_data
MissingSections(v) == ~PyIn(KeyMc, v) \/ ~PyIn(KeyTf, v)

\* type(quiz_data).__name__ in the TypeError text
PyTypeName(v) ==
    CASE v.type = "num" -> "int"
      [] v.type = "float" -> "float"
      [] v.type = "lit" /\ v.l = "null" -> "NoneType"
      [] OTHER -> "bool"

----------------------------------------------------------------------------
(* Responses.                                                              *)

ErrorBody(msg) == [type |-> "error", error |-> msg]

\* return jsonify({"error": ...}), 400
ClientError(k, msg) == [status |-> 400, kind |-> k, body |-> ErrorBody(<<msg>>)]

\* except Exception as e: ... f"An internal error occurred: {str(e)}", 500
InternalError(k, detail) ==
    [status |-> 500, kind |-> k,
     body |-> ErrorBody(<<"An internal error occurred: ">> \o detail)]

HasKey(v, k) == v.type = "obj" /\ \E i \in 1..Len(v.keys) : v.keys[i] = k
Field(v, k) == v.vals[IndexOf(v.keys, k)]
FourOptions(e) ==
    /\ HasKey(e, KeyOptions)
    /\ Field(e, KeyOptions).type = "arr"
    /\ Len(Field(e, KeyOptions).items) = 4

\* the 200 response of jsonify(quiz_data): the body is the value serialised
Success(v) == [status |-> 200, kind |-> "", body |-> v]

\* the frames jsonify adds down to the encoder: jsonify, the provider's
\* response and dumps, json.dumps, JSONEncoder.encode and iterencode
JsonifyFrames == 6

\* the frames in use inside iterencode: on top of those of the server, the
\* view and those of jsonify
FramesInDumps == ServerFrames + 1 + JsonifyFrames

\* a < b for two str: by code point, a proper prefix first
RECURSIVE StrLess(_, _)
StrLess(a, b) ==
    IF b = <<>> THEN FALSE
    ELSE IF a = <<>> THEN TRUE
    ELSE IF a[1] # b[1] THEN a[1] < b[1]
    ELSE StrLess(Tail(a), Tail(b))

\* the values of an object in the order of its sorted keys (sort_keys)
SortedVals(v) ==
    LET order == SortSeq([i \in 1..Len(v.keys) |-> i],
                         LAMBDA i, j : StrLess(v.keys[i], v.keys[j]))
    IN [i \in 1..Len(order) |-> v.vals[order[i]]]

RECURSIVE Encode(_, _)
RECURSIVE EncodeItems(_, _, _)

\* the encoder on value v, a container at nesting depth d: "" when v is
\* serialised, else the end of the text of the RecursionError.  Entering a
\* list or a dict takes one level of the recursion limit, and sorting the
\* items of a dict of two or more keys one more
Encode(v, d) ==
    CASE v.type = "arr" ->
           IF FramesInDumps + d >= RecursionLimit
           THEN " while encoding a JSON object"
           ELSE EncodeItems(v.items, 1, d)
      [] v.type = "obj" ->
           IF FramesInDumps + d >= RecursionLimit
           THEN " while encoding a JSON object"
           ELSE IF Len(v.keys) >= 2 /\ FramesInDumps + d + 1 >= RecursionLimit
                THEN " in comparison"
           ELSE EncodeItems(SortedVals(v), 1, d)
      [] OTHER -> ""

\* the items of a container at depth d, from the i-th on
EncodeItems(items, i, d) ==
    IF i > Len(items) THEN ""
    ELSE LET e == Encode(items[i], d + 1) IN
         IF e # "" THEN e ELSE EncodeItems(items, i + 1, d)

\* return jsonify(quiz_data): the serialisation is inside the try, so a
\* RecursionError of the encoder is answered at app.py:127-130
Jsonify(v) ==
    LET e == Encode(v, 1) IN
    IF e = "" THEN Success(v)
    ELSE InternalError("RecursionError", <<MsgRecursion, e>>)

MsgNoPart == "No PDF file provided"
MsgNoFile == "No file selected"
MsgBadType == "Invalid file type, please upload a PDF"
MsgEmpty == "Could not extract any text from the PDF."
MsgNoClient == "OpenAI client is not initialized. Check your API key."
MsgApi == "Failed to get a valid response from the AI model: "
MsgNotJson == "The AI model returned a response that was not valid JSON."
MsgMissing == "The generated quiz is missing required sections."
MsgLoadsNone == "the JSON object must be str, bytes or bytearray, not NoneType"

\* UploadCheck with the file-type check ahead of the empty-filename check
UploadCheckReordered(r) ==
    IF ~r.hasPdf THEN ClientError("NoFilePart", MsgNoPart)
    ELSE IF ~EndsWith(Lower(r.filename), DotPdf)
         THEN ClientError("InvalidFileType", MsgBadType)
    ELSE IF r.filename = <<>> THEN ClientError("NoFileSelected", MsgNoFile)
    ELSE [status |-> 0, kind |-> "", body |-> NoVal]

\* the three upload checks, in the order of app.py:96-105
UploadCheck(r) ==
    IF ~r.hasPdf THEN ClientError("NoFilePart", MsgNoPart)
    ELSE IF r.filename = <<>> THEN ClientError("NoFileSelected", MsgNoFile)
    ELSE IF ~EndsWith(Lower(r.filename), DotPdf)
         THEN ClientError("InvalidFileType", MsgBadType)
    ELSE [status |-> 0, kind |-> "", body |-> NoVal]

\* the key check, the serialisation and the response of the endpoint for a
\* parsed quiz_data
ValidateOutcome(v) ==
    IF InRaises(v)
    THEN InternalError("TypeError",
             <<"argument of type '", PyTypeName(v), "' is not iterable">>)
    ELSE IF MissingSections(v)
         THEN InternalError("SchemaViolationError", <<MsgMissing>>)
    ELSE Jsonify(v)

\* json.loads of the content, then the key check: what the request answers
\* once the backend has returned content c; an exception of json.loads other
\* than JSONDecodeError reaches app.py:127-130 with its own text
NormalizeOutcome(c) ==
    IF c.type = "null"
    THEN InternalError("TypeError", <<MsgLoadsNone>>)
    ELSE LET r == JsonLoads(c.toks) IN
         IF r.ok THEN ValidateOutcome(r.val)
         ELSE IF r.exc = "JSONDecodeError"
              THEN InternalError("MalformedResponseError", <<MsgNotJson>>)
         ELSE InternalError(r.exc, r.msg)

----------------------------------------------------------------------------
(* Inputs: uploads, documents, backend results.                            *)

\* "", "a.pdf", "A.PDF", "Quiz.Pdf", "a.txt", "pdf", "a.pdfx", "B.PDFZ", and
\* two names with a capital sigma: alpha sigma, and sigma alpha ".PDF"
Filenames ==
    { <<>>,
      <<97, 46, 112, 100, 102>>,
      <<65, 46, 80, 68, 70>>,
      <<81, 117, 105, 122, 46, 80, 100, 102>>,
      <<97, 46, 116, 120, 116>>,
      <<112, 100, 102>>,
      <<97, 46, 112, 100, 102, 120>>,
      <<66, 46, 80, 68, 70, 90>>,
      <<913, 931>>,
      <<931, 913, 46, 80, 68, 70>> }

\* an empty page, a page of whitespace only (space, newline, tab, form feed,
\* carriage return, no-break space, em space), and tab "a b" newline
PageTexts ==
    { <<>>, <<32, 10, 9, 12, 13, 160, 8195>>, <<9, 97, 32, 98, 10>> }

RECURSIVE SeqsUpTo(_, _)
SeqsUpTo(S, n) ==
    IF n = 0 THEN {<<>>}
    ELSE LET shorter == SeqsUpTo(S, n - 1) IN
         shorter \cup {Append(q, x) : q \in shorter, x \in S}

\* a space at every seventh place, else "a" and "b" in turn
LongChar(i) == IF i % 7 = 0 THEN 32 ELSE IF i % 2 = 0 THEN 97 ELSE 98
LongText(n) == [i \in 1..n |-> LongChar(i)]

ValidDoc(pages) == [valid |-> TRUE, pages |-> pages, err |-> ""]
BadDoc(err) == [valid |-> FALSE, pages |-> <<>>, err |-> err]
NoDoc == BadDoc("")

Docs ==
    {ValidDoc(p) : p \in SeqsUpTo(PageTexts, MaxPages)}
    \cup {BadDoc("Failed to open stream")}

\* documents whose text is about TruncLimit characters long, in one page or
\* in two
LongDocs ==
    {ValidDoc(<<LongText(n)>>) : n \in (TruncLimit - Span)..(TruncLimit + Span)}
    \cup {ValidDoc(<<LongText(n), <<97, 98>>>>) :
              n \in (TruncLimit - Span)..(TruncLimit + Span)}

Requests ==
    {[hasPdf |-> FALSE, filename |-> <<>>, doc |-> NoDoc]}
    \cup {[hasPdf |-> TRUE, filename |-> f, doc |-> d] :
              f \in Filenames, d \in Docs}

ApiErrors == {"Rate limit reached", "Incorrect API key provided"}

Strs(q) == [i \in 1..Len(q) |-> JStr(q[i])]
McEntry(opts, ans) ==
    JObj(<<KeyQuestion, KeyOptions, KeyAnswer>>,
         <<JStr(StrQ), JArr(Strs(opts)), JStr(ans)>>)
TfEntry(ans) ==
    JObj(<<KeyQuestion, KeyAnswer>>, <<JStr(StrQ), JStr(ans)>>)

McValid == McEntry(<<StrA, StrB, StrC, StrD>>, StrA)
McThree == McEntry(<<StrA, StrB, StrC>>, StrA)
McDup == McEntry(<<StrA, StrA, StrB, StrC>>, StrA)
McBadAnswer == McEntry(<<StrA, StrB, StrC, StrD>>, StrZ)
TfValid == TfEntry(StrTrue)
TfLower == TfEntry(StrLowerTrue)

Times(x, n) == [i \in 1..n |-> x]

\* the string of n characters "1"
RECURSIVE Ones(_)
Ones(n) ==
    IF n = 0 THEN ""
    ELSE IF n % 2 = 0 THEN LET h == Ones(n \div 2) IN h \o h
    ELSE "1" \o Ones(n - 1)

\* int lexemes of one digit more than int() accepts, and of as many as it
\* accepts
IntOver == Ones(IntMaxStrDigits + 1)
IntAtLimit == Ones(IntMaxStrDigits)

McValues ==
    { JArr(<<>>), JArr(<<McValid>>), JArr(<<McThree>>), JArr(<<McDup>>),
      JArr(<<McBadAnswer>>), JArr(<<McValid, McThree>>),
      JArr(Times(McValid, num_mcq)), JNum("5"), JStr(StrX) }
TfValues ==
    { JArr(<<>>), JArr(<<TfValid>>), JArr(<<TfLower>>),
      JArr(Times(TfValid, num_tf)), JLit("null") }

\* the JSON documents the backend may answer with
SampleValues ==
    {JObj(<<KeyMc, KeyTf>>, <<m, JArr(<<TfValid>>)>>) : m \in McValues}
    \cup {JObj(<<KeyMc, KeyTf>>, <<JArr(<<McValid>>), t>>) : t \in TfValues}
    \cup { JObj(<<>>, <<>>),
           JObj(<<KeyMc>>, <<JArr(<<McValid>>)>>),
           JObj(<<KeyTf>>, <<JArr(<<TfValid>>)>>),
           JObj(<<KeyQuiz>>, <<JArr(<<>>)>>),
           JArr(<<JStr(KeyMc), JStr(KeyTf)>>),
           JArr(<<JStr(KeyMc)>>),
           JArr(<<>>),
           JStr(KeyMc \o StrSpace \o KeyTf),
           JStr(KeyMc),
           JStr(KeyTf \o <<44>> \o KeyMc),
           JObj(<<KeyMc, KeyTf, StrX>>,
                <<JArr(<<>>), JArr(<<>>), JFloat("NaN")>>),
           JObj(<<StrUDiaeresis, KeyMc, StrEAcute, KeyTf>>,
                <<JArr(<<>>), JArr(<<McValid>>), JNum("5"), JArr(<<>>)>>),
           JObj(<<KeyTf, StrCjk, StrSoh, KeyMc, StrDel, StrSpace>>,
                <<JArr(<<TfValid>>), JArr(<<>>), JLit("null"), JArr(<<>>),
                  JStr(StrEAcute), JNum("5")>>),
           JObj(<<KeyMc, KeyTf, StrX>>,
                <<JArr(<<>>), JArr(<<>>), JNum(IntAtLimit)>>),
           JNum("5"), JFloat("5.5"), JFloat("-Infinity"),
           JLit("null"), JLit("true") }

RECURSIVE Render(_)
RECURSIVE RenderItems(_)
RECURSIVE RenderMembers(_, _)

\* the text of a JSON value, as tokens
Render(v) ==
    CASE v.type = "str" -> <<TokStr(v.s)>>
      [] v.type = "num" -> <<Tok("n", v.n)>>
      [] v.type = "float" ->
           <<Tok(IF v.x \in FloatWords THEN "w" ELSE "d", v.x)>>
      [] v.type = "lit" -> <<Tok("w", v.l)>>
      [] v.type = "arr" -> <<LBrack>> \o RenderItems(v.items) \o <<RBrack>>
      [] OTHER -> <<LBrace>> \o RenderMembers(v.keys, v.vals) \o <<RBrace>>

RenderItems(items) ==
    IF items = <<>> THEN <<>>
    ELSE IF Len(items) = 1 THEN Render(items[1])
    ELSE Render(items[1]) \o <<Comma>> \o RenderItems(Tail(items))

RenderMembers(keys, vals) ==
    IF keys = <<>> THEN <<>>
    ELSE LET m == <<TokStr(keys[1]), Colon>> \o Render(vals[1]) IN
         IF Len(keys) = 1 THEN m
         ELSE m \o <<Comma>> \o RenderMembers(Tail(keys), Tail(vals))

\* a fenced block tagged json: the opening marker, a newline, the
\* content, a newline, the closing marker
Fence(toks) == <<FenceOpen, Newline>> \o toks \o <<Newline, FenceClose>>

Prose == <<Tok("w", "Sorry"), Tok("ws", " "), Tok("w", "I"), Tok("ws", " "),
           Tok("w", "cannot"), Tok("ws", " "), Tok("w", "help")>>

\* texts that are not one JSON document
BrokenTexts ==
    { <<>>, Prose,
      <<LBrace, TokStr(KeyMc), Colon, LBrack, RBrack, Comma, RBrace>>,
      <<LBrace, TokStr(KeyMc), Colon, LBrack, RBrack>>,
      <<LBrack, TokStr(KeyMc), Comma, RBrack>>,
      <<LBrace, TokStr(KeyMc), LBrack, RBrack, RBrace>>,
      <<Tok("ws", "\f"), LBrack, RBrack>>,
      <<Tok("w", "nan")>>,
      <<Tok("n", IntOver), Tok("ws", " "), Tok("w", "sorry")>>,
      <<LBrack, Comma, Tok("n", IntOver), RBrack>>,
      Render(JObj(<<KeyMc, KeyTf>>, <<JArr(<<>>), JArr(<<>>)>>)) \o Prose }

\* texts that parse although they are not Render of a sample
OtherTexts ==
    { <<Newline, LBrace, TokStr(KeyTf), Colon, LBrack, RBrack, Comma,
        TokStr(KeyMc), Colon, LBrack, RBrack, Comma, Newline,
        TokStr(KeyTf), Colon, Tok("n", "5"), RBrace, Newline>> }

\* JSON documents with an int of more digits than int() accepts
LimitTexts ==
    { <<Tok("n", IntOver)>>,
      <<Tok("n", "-" \o IntOver)>>,
      <<LBrace, TokStr(KeyMc), Colon, LBrack, RBrack, Comma,
        TokStr(KeyTf), Colon, LBrack, RBrack, Comma,
        TokStr(StrX), Colon, Tok("n", IntOver), RBrace>> }

RawText(toks) == [type |-> "text", toks |-> toks]
\* message.content is None
NullContent == [type |-> "null"]
NoRaw == [type |-> "none"]

\* completion.choices[0].message.content
RawOutputs ==
    {RawText(Render(v)) : v \in SampleValues}
    \cup {RawText(Fence(Render(v))) : v \in SampleValues}
    \cup {RawText(Fence(t)) : t \in BrokenTexts}
    \cup {RawText(t) : t \in BrokenTexts \cup OtherTexts \cup LimitTexts}
    \cup {NullContent}

----------------------------------------------------------------------------
(* The pipeline.                                                           *)

Terminal == {"Completed", "Failed"}

NoRequest == [hasPdf |-> FALSE, filename |-> <<>>, doc |-> NoDoc]
NoFailure == [kind |-> "", body |-> NoVal]

\* the process has started: the client is built or None, no request yet
Init ==
    /\ client \in BOOLEAN
    /\ pc = "Idle"
    /\ req = NoRequest
    /\ bytesRead = FALSE
    /\ extracted = FALSE
    /\ text = <<>>
    /\ prompt = NoPrompt
    /\ calls = 0
    /\ raw = NoRaw
    /\ status = 0
    /\ kind = ""
    /\ body = NoVal
    /\ trace = <<>>
    /\ lastFailure = NoFailure

\* the request answers with outcome o
Respond(o) ==
    /\ pc' = IF o.status = 200 THEN "Completed" ELSE "Failed"
    /\ status' = o.status
    /\ kind' = o.kind
    /\ body' = o.body
    /\ trace' = Append(trace, IF o.status = 200 THEN "Completed" ELSE "Failed")

\* the request moves on to step p
Goto(p) ==
    /\ pc' = p
    /\ trace' = Append(trace, p)
    /\ UNCHANGED <<status, kind, body>>

\* a POST /generate-quiz arrives (app.py:91-92)
Receive ==
    /\ pc = "Idle"
    /\ \E r \in Requests : req' = r
    /\ pc' = "Received"
    /\ trace' = <<"Received">>
    /\ UNCHANGED <<client, bytesRead, extracted, text, prompt, calls, raw,
                   status, kind, body, lastFailure>>

\* the view function returns (app.py:97, 102, 105, 116, 125, 130): the
\* response is sent and the locals of the request are gone
Return ==
    /\ pc \in Terminal
    /\ lastFailure' = IF pc = "Failed" THEN [kind |-> kind, body |-> body]
                      ELSE lastFailure
    /\ pc' = "Idle"
    /\ req' = NoRequest
    /\ trace' = <<>>
    /\ bytesRead' = FALSE
    /\ extracted' = FALSE
    /\ text' = <<>>
    /\ prompt' = NoPrompt
    /\ calls' = 0
    /\ raw' = NoRaw
    /\ status' = 0
    /\ kind' = ""
    /\ body' = NoVal
    /\ UNCHANGED client

\* app.py:96-105
ValidateUpload ==
    /\ pc = "Received"
    /\ IF UploadCheck(req).status # 0
       THEN Respond(UploadCheck(req))
       ELSE Goto("Extracting")
    /\ UNCHANGED <<client, req, bytesRead, extracted, text, prompt, calls, raw,
                   lastFailure>>

\* app.py:109-113; fitz.open raising is caught at app.py:127-130
ExtractText ==
    /\ pc = "Extracting"
    /\ bytesRead' = TRUE
    /\ extracted' = TRUE
    /\ IF req.doc.valid
       THEN /\ text' = Join(req.doc.pages)
            /\ Goto("Extracted")
       ELSE /\ text' = text
            /\ Respond(InternalError("ExtractionError", <<req.doc.err>>))
    /\ UNCHANGED <<client, req, prompt, calls, raw, lastFailure>>

\* CheckText without the empty-text return
CheckTextSkipped ==
    /\ pc = "Extracted"
    /\ Goto("Prompting")
    /\ UNCHANGED <<client, req, bytesRead, extracted, text, prompt, calls, raw,
                   lastFailure>>

\* app.py:115-116
CheckText ==
    /\ pc = "Extracted"
    /\ IF Strip(text) = <<>>
       THEN Respond(ClientError("EmptyContentError", MsgEmpty))
       ELSE Goto("Prompting")
    /\ UNCHANGED <<client, req, bytesRead, extracted, text, prompt, calls, raw,
                   lastFailure>>

\* app.py:119 entering generate_quiz_from_text, app.py:28-66
Prompting ==
    /\ pc = "Prompting"
    /\ IF client
       THEN /\ prompt' = BuildPrompt(text)
            /\ Goto("Generating")
       ELSE /\ prompt' = prompt
            /\ Respond(InternalError("ClientNotInitialized", <<MsgNoClient>>))
    /\ UNCHANGED <<client, req, bytesRead, extracted, text, calls, raw,
                   lastFailure>>

\* Generate that issues the call a second time when the first raises
GenerateRetrying ==
    /\ pc = "Generating"
    /\ \/ \E e \in ApiErrors :
            /\ calls' = calls + 2
            /\ raw' = raw
            /\ Respond(InternalError("GenerationError", <<MsgApi, e>>))
       \/ \E c \in RawOutputs :
            /\ calls' = calls + 1
            /\ raw' = c
            /\ Goto("Normalizing")
    /\ UNCHANGED <<client, req, bytesRead, extracted, text, prompt,
                   lastFailure>>

\* app.py:69-79 and 83-85: one client.chat.completions.create, which raises
\* openai.APIError or returns content
Generate ==
    /\ pc = "Generating"
    /\ calls' = calls + 1
    /\ \/ \E e \in ApiErrors :
            /\ raw' = raw
            /\ Respond(InternalError("GenerationError", <<MsgApi, e>>))
       \/ \E c \in RawOutputs :
            /\ raw' = c
            /\ Goto("Normalizing")
    /\ UNCHANGED <<client, req, bytesRead, extracted, text, prompt,
                   lastFailure>>

\* Normalize that goes back to the generation step on a rejected response
NormalizeRetrying ==
    /\ pc = "Normalizing"
    /\ IF NormalizeOutcome(raw).status = 500 /\ calls < 2
       THEN Goto("Generating")
       ELSE Respond(NormalizeOutcome(raw))
    /\ UNCHANGED <<client, req, bytesRead, extracted, text, prompt, calls, raw,
                   lastFailure>>

\* app.py:81, 86-88, 122-125 and 127-130
Normalize ==
    /\ pc = "Normalizing"
    /\ Respond(NormalizeOutcome(raw))
    /\ UNCHANGED <<client, req, bytesRead, extracted, text, prompt, calls, raw,
                   lastFailure>>

Next ==
    \/ Receive
    \/ ValidateUpload
    \/ ExtractText
    \/ CheckText
    \/ Prompting
    \/ Generate
    \/ Normalize
    \/ Return

Spec == Init /\ [][Next]_vars

\* The prompt construction on long texts: an accepted upload of a long
\* document, followed from extraction to the built prompt.
InitPrompt ==
    /\ client \in BOOLEAN
    /\ pc = "Extracting"
    /\ \E d \in LongDocs :
           req = [hasPdf |-> TRUE, filename |-> <<97, 46, 112, 100, 102>>,
                  doc |-> d]
    /\ bytesRead = FALSE
    /\ extracted = FALSE
    /\ text = <<>>
    /\ prompt = NoPrompt
    /\ calls = 0
    /\ raw = NoRaw
    /\ status = 0
    /\ kind = ""
    /\ body = NoVal
    /\ trace = <<"Received", "Extracting">>
    /\ lastFailure = NoFailure

NextPrompt ==
    \/ ExtractText
    \/ CheckText
    \/ Prompting

SpecPrompt == InitPrompt /\ [][NextPrompt]_vars

----------------------------------------------------------------------------
(* Properties.                                                             *)

InTrace(p) == \E i \in 1..Len(trace) : trace[i] = p

IsPrefix(a, b) == Len(a) <= Len(b) /\ SubSeq(b, 1, Len(a)) = a

Canonical ==
    <<"Received", "Extracting", "Extracted", "Prompting", "Generating",
      "Normalizing", "Completed">>

Outcome == [status |-> status, kind |-> kind, body |-> body]

\* the request has answered after the backend returned text
Normalized == pc \in Terminal /\ raw.type = "text"

\* C1: once extraction has produced a text that is empty after strip(), the
\* request is either about to be rejected or has been rejected with the 400
\* empty-content error, and no chat-completion call has been made.
C1_EmptyTextFailsBeforeCall ==
    (InTrace("Extracted") /\ Strip(text) = <<>>) =>
        /\ calls = 0
        /\ prompt = NoPrompt
        /\ pc \in {"Extracted", "Failed"}
        /\ pc = "Failed" =>
               Outcome = ClientError("EmptyContentError", MsgEmpty)

\* a whitespace-only (not empty) extracted text has been rejected
C1_Witness ==
    /\ pc = "Failed"
    /\ InTrace("Extracted")
    /\ text # <<>>
    /\ Strip(text) = <<>>
    /\ kind = "EmptyContentError"

TopLevelArrays(v) ==
    /\ HasKey(v, KeyMc) /\ Field(v, KeyMc).type = "arr"
    /\ HasKey(v, KeyTf) /\ Field(v, KeyTf).type = "arr"

\* C2: a parsed response without both keys, each an array, ends Failed with
\* the schema violation, and every success is an object with both keys, each
\* an array.
C2_Original ==
    /\ (Normalized /\ JsonLoads(raw.toks).ok
            /\ ~TopLevelArrays(JsonLoads(raw.toks).val)) =>
           (pc = "Failed" /\ kind = "SchemaViolationError")
    /\ pc = "Completed" => TopLevelArrays(body)

Distinct(q) == \A i, j \in 1..Len(q) : i # j => q[i] # q[j]
McEntryOk(e) ==
    /\ FourOptions(e)
    /\ Distinct(Field(e, KeyOptions).items)
    /\ HasKey(e, KeyAnswer)
    /\ \E i \in 1..4 : Field(e, KeyOptions).items[i] = Field(e, KeyAnswer)

Scenario4 ==
    RawText(Render(JObj(<<KeyMc, KeyTf>>,
                        <<JArr(<<McThree>>), JArr(<<TfValid>>)>>)))

\* C3: every multiple-choice entry of a returned quiz has four distinct
\* options and an answer among them, and the response with a three-option
\* entry ends Failed with the schema violation.
C3_Original ==
    /\ pc = "Completed" =>
           /\ HasKey(body, KeyMc)
           /\ Field(body, KeyMc).type = "arr"
           /\ \A i \in 1..Len(Field(body, KeyMc).items) :
                  McEntryOk(Field(body, KeyMc).items[i])
    /\ (Normalized /\ raw = Scenario4) =>
           (pc = "Failed" /\ kind = "SchemaViolationError")

\* C4: a fenced JSON document is answered as the unwrapped document is.
C4_Original ==
    (Normalized /\ IsFenced(raw.toks)) =>
        Outcome = NormalizeOutcome(RawText(Unfence(raw.toks)))

\* C5: two failed requests of the same kind answer with the same
\* body.
C5_GenericMessage ==
    (pc = "Failed" /\ lastFailure.kind = kind) => lastFailure.body = body

\* C6: the steps run in the order Received, Extracting, Extracted,
\* Prompting, Generating, Normalizing, Completed; a failure ends the request
\* at once in Failed; a terminal state is the last step, Completed holds a
\* quiz and Failed an error, and a generation call is made only by a request
\* that reached Generating.
C6_Sequential ==
    /\ IF trace = <<>> THEN pc = "Idle"
       ELSE /\ pc = trace[Len(trace)]
            /\ \/ IsPrefix(trace, Canonical)
               \/ /\ trace[Len(trace)] = "Failed"
                  /\ Len(trace) >= 2
                  /\ Len(trace) <= Len(Canonical)
                  /\ IsPrefix(SubSeq(trace, 1, Len(trace) - 1), Canonical)
    /\ pc = "Completed" =>
           (status = 200 /\ kind = "" /\ body.type \notin {"none", "error"})
    /\ pc = "Failed" =>
           (status \in {400, 500} /\ kind # "" /\ body.type = "error"
               /\ body.error # <<>>)
    /\ pc \notin Terminal => (status = 0 /\ kind = "" /\ body = NoVal)
    /\ calls > 0 => InTrace("Generating")
    /\ raw # NoRaw => InTrace("Normalizing")
    /\ prompt # NoPrompt => InTrace("Generating")
    /\ extracted => InTrace("Extracting")

\* a request has run every step and completed
C6_Witness == pc = "Completed" /\ trace = Canonical

\* C7: a request makes at most one chat-completion call: none before the
\* generation step has run, exactly one after it, also when the call raised
\* or its content did not parse.
C7_OneCall ==
    /\ calls = IF InTrace("Generating") /\ pc # "Generating" THEN 1 ELSE 0
    /\ (pc = "Failed"
           /\ kind \in {"GenerationError", "MalformedResponseError",
                        "ValueError"})
           => calls = 1

\* the call raised an API error and the request failed after one call
C7_Witness == pc = "Failed" /\ kind = "GenerationError" /\ calls = 1

\* the texts of the model that are not one JSON document
FencedTexts == {Fence(Render(v)) : v \in SampleValues}
NotJson(toks) == toks \in BrokenTexts \cup FencedTexts

\* C8: a raw output that is not a JSON document ends the request
\* Failed with the not-valid-JSON error, whose body differs from every
\* API-error body, and no quiz is returned.
C8_MalformedRejected ==
    (Normalized /\ NotJson(raw.toks)) =>
        /\ pc = "Failed"
        /\ Outcome = InternalError("MalformedResponseError", <<MsgNotJson>>)
        /\ \A e \in ApiErrors :
               body # InternalError("GenerationError", <<MsgApi, e>>).body

\* C9: the excerpt of the prompt is the first TruncLimit characters of a
\* longer text, and the whole text when it is no longer than TruncLimit.
C9_Truncation ==
    prompt # NoPrompt =>
        /\ prompt.mcq = num_mcq /\ prompt.tf = num_tf
        /\ Len(text) > TruncLimit =>
               /\ Len(prompt.excerpt) = TruncLimit
               /\ \A i \in 1..TruncLimit : prompt.excerpt[i] = text[i]
        /\ Len(text) <= TruncLimit => prompt.excerpt = text

\* a prompt has been built from a text longer than the budget
C9_Witness ==
    /\ prompt # NoPrompt
    /\ Len(text) > TruncLimit
    /\ Len(prompt.excerpt) < Len(text)

\* "a.pdf", "A.PDF", "Quiz.Pdf", sigma alpha ".PDF"
AcceptedNames ==
    { <<97, 46, 112, 100, 102>>, <<65, 46, 80, 68, 70>>,
      <<81, 117, 105, 122, 46, 80, 100, 102>>,
      <<931, 913, 46, 80, 68, 70>> }

\* the 400 response the upload checks owe to request r
UploadVerdict(r) ==
    IF ~r.hasPdf THEN ClientError("NoFilePart", MsgNoPart)
    ELSE IF r.filename = <<>> THEN ClientError("NoFileSelected", MsgNoFile)
    ELSE ClientError("InvalidFileType", MsgBadType)

\* C10: a request without a pdf part, else with an empty filename, else with
\* a filename not ending in .pdf in any letter case, never leaves the upload
\* checks: it is answered 400 with the message of the first failing check,
\* and its bytes are not read, no text is extracted and no call is made; a
\* request with a .pdf name passes the checks.
C10_UploadChecks ==
    /\ (pc # "Idle" /\ (~req.hasPdf \/ req.filename \notin AcceptedNames)) =>
           /\ pc \in {"Received", "Failed"}
           /\ ~bytesRead /\ ~extracted /\ calls = 0 /\ text = <<>>
           /\ pc = "Failed" => Outcome = UploadVerdict(req)
    /\ (pc = "Failed" /\ req.hasPdf /\ req.filename \in AcceptedNames) =>
           kind \notin {"NoFilePart", "NoFileSelected", "InvalidFileType"}

\* an upload with an empty filename has been rejected
C10_Witness ==
    /\ pc = "Failed"
    /\ req.hasPdf
    /\ req.filename = <<>>
    /\ kind = "NoFileSelected"

====
